---- MODULE Spec2Model ----
(***************************************************************************)
(* A model of django_sockjs_server/lib/pika_client.py: the PikaClient      *)
(* broker bridge.  The state is the fields of the one PikaClient object,   *)
(* the broker library's connection objects, the pending timers of the      *)
(* I/O loop, and the external membership store (redis).  Every handler of  *)
(* PikaClient is one action; connect() is split at its time.sleep(5),      *)
(* the only place where a handler holds the loop for a duration.           *)
(***************************************************************************)
EXTENDS Integers, Sequences, FiniteSets, TLC

VARIABLES
    connected,              \* self.connected
    connecting,             \* self.connecting
    connection,             \* self.connection: 0 is None, else a connection object
    channel,                \* self.channel: 0 is None, else the channel of that connection
    queue,                  \* self.queue: "" until on_queue_declared
    event_listeners_count,  \* self.event_listeners_count
    event_listeners,        \* self.event_listeners
    subscrib_channel,       \* self.subscrib_channel: conn_id -> [room, conn]
    store,                  \* the redis membership store: room -> list of elements
    conns,                  \* the library's connection objects: id -> lifecycle stage
    issued,                 \* AMQP methods issued on each connection, in order
    nconn,                  \* TornadoConnection objects constructed so far
    attempts,               \* TornadoConnection(...) constructor calls so far
    fails,                  \* constructor calls that raised AMQPConnectionError
    timers,                 \* pending add_timeout(5, self.reconnect) timers
    pc,                     \* "loop": the I/O loop is free; "sleep": inside time.sleep(5)
    added,                  \* history: ids added and not removed since their last add
    last,                   \* history: the last handler run, the calls it made, what it raised
    clock,                  \* now(), in seconds since the construction of the client
    last_reconnect,         \* self.last_reconnect
    uptime_start,           \* self.uptime_start
    attempt_start,          \* history: now() at the latest constructor call
    uptime_returned,        \* history: what get_uptime() returned last (0 before any call)
    published,              \* broker: messages published so far
    bqueue,                 \* broker: messages waiting in the queue
    inflight,               \* broker: messages sent to each connection, not yet handled
    unacked,                \* broker: messages it awaits an ack for, by connection
    handled,                \* history: handle_delivery calls per message
    bcasts,                 \* history: broadcasts made per message
    peer_channel            \* subscrib_channel of the bridge instance on the other host

vars == <<connected, connecting, connection, channel, queue,
          event_listeners_count, event_listeners, subscrib_channel, store,
          conns, issued, nconn, attempts, fails, timers, pc, added, last,
          clock, last_reconnect, uptime_start, attempt_start, uptime_returned,
          published, bqueue, inflight, unacked, handled, bcasts, peer_channel>>

connVars == <<connected, connecting, connection, channel, queue,
              conns, issued, nconn, attempts, fails, timers, pc>>
listenerVars == <<event_listeners_count, event_listeners>>
registryVars == <<subscrib_channel, added>>
timeVars == <<clock, last_reconnect, uptime_start, attempt_start, uptime_returned>>
brokerVars == <<published, bqueue, inflight, unacked, handled, bcasts>>
peerVars == <<peer_channel>>

----------------------------------------------------------------------------
(* Bounds of the model *)

\* connection objects the broker library may construct
MaxConn == 3
\* constructor calls that may raise AMQPConnectionError
MaxFail == 2
\* elements held by the membership store, over all rooms
MaxStore == 1
\* messages published to the exchange
MaxMsgs == 2
\* |event_listeners_count| is kept within this many calls
MaxCount == 3
\* the clock is advanced at most this many times
MaxTicks == 3

(* Input domains *)
ConnIds == {"c1", "c2"}
Rooms == {"r1", "r2"}
Hosts == {"h1", "h2"}
Datas == {"d1", "d2"}
Handles == {"H1", "H2"}
Listeners == {"L1", "L2", "L3"}

----------------------------------------------------------------------------
(* JSON.  A text is [valid, pairs]: valid says whether json.loads accepts  *)
(* it, pairs is the object's "key": value members in the order written.    *)
(* A decoded object is a function from its keys to values (a Python dict). *)

Garbage == [valid |-> FALSE, pairs |-> <<>>]

\* the order in which json.dumps writes the keys of a dict
KeyOrder == <<"data", "host", "id", "room", "uid">>

json_dumps(obj) ==
    LET ks == SelectSeq(KeyOrder, LAMBDA k : k \in DOMAIN obj)
    IN  [valid |-> TRUE, pairs |-> [i \in 1..Len(ks) |-> <<ks[i], obj[ks[i]]>>]]

\* json.loads raises ValueError exactly when the text is not valid
json_loads(text) ==
    LET ps == text.pairs
        keys == {ps[i][1] : i \in DOMAIN ps}
        lastOf(k) == CHOOSE i \in DOMAIN ps :
                        /\ ps[i][1] = k
                        /\ \A j \in DOMAIN ps : j > i => ps[j][1] # k
    IN  [k \in keys |-> ps[lastOf(k)][2]]

----------------------------------------------------------------------------
(* The redis list store *)

\* LREM key count value, for count = 0 (all occurrences) and count > 0
\* (the first count occurrences); an absent value leaves the list as it is
RECURSIVE lrem_list(_, _, _)
lrem_list(list, count, value) ==
    IF list = <<>> THEN <<>>
    ELSE IF Head(list) = value
         THEN IF count = 0 THEN lrem_list(Tail(list), 0, value)
              ELSE IF count = 1 THEN Tail(list)
              ELSE lrem_list(Tail(list), count - 1, value)
         ELSE <<Head(list)>> \o lrem_list(Tail(list), count, value)

lrem(st, key, count, value) ==
    IF key \in DOMAIN st
    THEN [st EXCEPT ![key] = lrem_list(st[key], count, value)]
    ELSE st

StoreSize(st) == LET RECURSIVE sum(_)
                     sum(S) == IF S = {} THEN 0
                               ELSE LET k == CHOOSE k \in S : TRUE
                                    IN  Len(st[k]) + sum(S \ {k})
                 IN  sum(DOMAIN st)

----------------------------------------------------------------------------
(* notify_listeners, as a function of the body, the registry and the store *)

\* a dispatcher that forwards the whole event, host and room included
OutboundEnvelope_whole(event_obj) == json_dumps(event_obj)

\* line 110: the envelope sent to the subscriber
OutboundEnvelope(event_obj) == json_dumps([data |-> event_obj["data"]])

\* a dispatcher that names the room where the host belongs
MembershipElement_room(event_obj) ==
    json_dumps([id |-> event_obj["uid"], host |-> event_obj["room"]])

\* line 107: the element removed from the membership list
MembershipElement(event_obj) ==
    json_dumps([id |-> event_obj["uid"], host |-> event_obj["host"]])

\* a lookup that also wants the entry's room to be the event's
LookupHit_roomChecked(event_obj, registry) ==
    /\ "uid" \in DOMAIN event_obj
    /\ event_obj["uid"] \in DOMAIN registry
    /\ "room" \in DOMAIN event_obj
    /\ registry[event_obj["uid"]].room = event_obj["room"]

\* line 105: the lookup succeeds (no KeyError) when the object has a uid
\* and the registry has an entry for it
LookupHit(event_obj, registry) ==
    /\ "uid" \in DOMAIN event_obj
    /\ event_obj["uid"] \in DOMAIN registry

\* lines 109-111: the else branch of the try
DispatchHit(event_obj, registry, st) ==
    LET client == registry[event_obj["uid"]].conn
    IN  IF "data" \notin DOMAIN event_obj
        THEN [raised |-> "KeyError", broadcasts |-> <<>>, lrems |-> <<>>, store |-> st]
        ELSE [raised |-> "none",
              broadcasts |-> <<[on |-> client, recipients |-> <<client>>,
                               payload |-> OutboundEnvelope(event_obj)]>>,
              lrems |-> <<>>,
              store |-> st]

\* a miss that removes the element from the list of every room
DispatchMiss_everyRoom(event_obj, st) ==
    IF {"room", "uid", "host"} \subseteq DOMAIN event_obj
    THEN [raised |-> "none",
          broadcasts |-> <<>>,
          lrems |-> <<[key |-> event_obj["room"], count |-> 0,
                      value |-> MembershipElement(event_obj)]>>,
          store |-> [k \in DOMAIN st |->
                        lrem_list(st[k], 0, MembershipElement(event_obj))]]
    ELSE [raised |-> "KeyError", broadcasts |-> <<>>, lrems |-> <<>>, store |-> st]

\* lines 106-107: the except KeyError branch
DispatchMiss(event_obj, st) ==
    IF {"room", "uid", "host"} \subseteq DOMAIN event_obj
    THEN [raised |-> "none",
          broadcasts |-> <<>>,
          lrems |-> <<[key |-> event_obj["room"], count |-> 0,
                      value |-> MembershipElement(event_obj)]>>,
          store |-> lrem(st, event_obj["room"], 0, MembershipElement(event_obj))]
    ELSE [raised |-> "KeyError", broadcasts |-> <<>>, lrems |-> <<>>, store |-> st]

notify_listeners(event_json, registry, st) ==
    IF ~event_json.valid
    THEN [raised |-> "ValueError", broadcasts |-> <<>>, lrems |-> <<>>, store |-> st]
    ELSE LET event_obj == json_loads(event_json)
         IN  IF LookupHit(event_obj, registry)
             THEN DispatchHit(event_obj, registry, st)
             ELSE DispatchMiss(event_obj, st)

----------------------------------------------------------------------------
(* Inbound bodies: every complete event, the events that lack some of the *)
(* four keys, and a text that is not JSON.                                 *)

EventKeys == {"uid", "room", "host", "data"}

Restrict(f, ks) == [k \in ks |-> f[k]]

CompleteEvents == [uid : ConnIds, room : Rooms, host : Hosts, data : Datas]

\* the incomplete events are cut from the events of one room, host and datum
PartialEvents ==
    {Restrict(e, ks) : e \in {x \in CompleteEvents :
                                 x.room = "r1" /\ x.host = "h1" /\ x.data = "d1"},
                       ks \in (SUBSET EventKeys) \ {EventKeys}}

Bodies == {json_dumps(obj) : obj \in CompleteEvents \cup PartialEvents} \cup {Garbage}

\* the elements the transport layer writes into the membership lists
Elements == {json_dumps([id |-> u, host |-> h]) : u \in ConnIds, h \in Hosts}

----------------------------------------------------------------------------
(* Python dicts and the history record *)

EmptyDict == [x \in {} |-> x]

dict_set(d, k, v) == [x \in DOMAIN d \cup {k} |-> IF x = k THEN v ELSE d[x]]

dict_del(d, k) == [x \in DOMAIN d \ {k} |-> d[x]]

Range(s) == {s[i] : i \in DOMAIN s}

\* what a handler leaves in `last`: its name, its argument (a connection id,
\* a listener, or ""), the body it was given, the calls it made on the
\* transport handles and on redis, and the exception that left it; room,
\* client and had are "" but for the registry's handlers
Ran(op, arg, body, res) ==
    [op |-> op, arg |-> arg, room |-> "", client |-> "", had |-> "", body |-> body,
     broadcasts |-> res.broadcasts, lrems |-> res.lrems, raised |-> res.raised]

Quiet(op, arg) ==
    [op |-> op, arg |-> arg, room |-> "", client |-> "", had |-> "", body |-> Garbage,
     broadcasts |-> <<>>, lrems |-> <<>>, raised |-> "none"]

\* a registry call leaves its room and client arguments too, and the handle
\* the registry held for the id when it was called ("" when it held none)
HandleOf(registry, conn_id) ==
    IF conn_id \in DOMAIN registry THEN registry[conn_id].conn ELSE ""

Called(op, conn_id, room, client, registry) ==
    [Quiet(op, conn_id) EXCEPT !.room = room, !.client = client,
                               !.had = HandleOf(registry, conn_id)]

----------------------------------------------------------------------------
(* The subscriber registry: lines 126-137, 142-146 *)

\* a registry whose add keeps the entry an id already has
add_subscriber_channel_firstWins(registry, conn_id, room, client) ==
    IF conn_id \in DOMAIN registry
    THEN registry
    ELSE dict_set(registry, conn_id, [room |-> room, conn |-> client])

\* lines 126-128
add_subscriber_channel(registry, conn_id, room, client) ==
    dict_set(registry, conn_id, [room |-> room, conn |-> client])

\* a registry whose remove logs the room and forgets line 133
remove_subscriber_channel_kept(registry, conn_id, client) ==
    [registry |-> registry, raised |-> "none"]

\* a registry whose remove spares an entry that holds another handle
remove_subscriber_channel_ifOwner(registry, conn_id, client) ==
    IF conn_id \in DOMAIN registry /\ registry[conn_id].conn = client
    THEN [registry |-> dict_del(registry, conn_id), raised |-> "none"]
    ELSE [registry |-> registry, raised |-> "none"]

\* the KeyError of an absent conn_id is caught: the registry is left as it
\* is; client is only logged (line 134)
remove_subscriber_channel(registry, conn_id, client) ==
    IF conn_id \in DOMAIN registry
    THEN [registry |-> dict_del(registry, conn_id), raised |-> "none"]
    ELSE [registry |-> registry, raised |-> "none"]

get_subscribe_channel_count == Cardinality(DOMAIN subscrib_channel)

get_subscribe_channels == DOMAIN subscrib_channel

AddSubscriberChannel(conn_id, room, client) ==
    /\ pc = "loop"
    /\ subscrib_channel' = add_subscriber_channel(subscrib_channel, conn_id, room, client)
    /\ added' = added \cup {conn_id}
    /\ last' = Called("add_subscriber_channel", conn_id, room, client, subscrib_channel)
    /\ UNCHANGED <<connVars, listenerVars, store, timeVars, brokerVars, peerVars>>

RemoveSubscriberChannel(conn_id, client) ==
    /\ pc = "loop"
    /\ LET r == remove_subscriber_channel(subscrib_channel, conn_id, client)
       IN  /\ subscrib_channel' = r.registry
           /\ last' = [Called("remove_subscriber_channel", conn_id, "", client,
                              subscrib_channel)
                          EXCEPT !.raised = r.raised]
    /\ added' = added \ {conn_id}
    /\ UNCHANGED <<connVars, listenerVars, store, timeVars, brokerVars, peerVars>>

----------------------------------------------------------------------------
(* The event listener set: lines 113-124, 139-140 *)

\* line 114 runs before line 115, whether or not the listener is new
add_event_listener(count, listeners, listener) ==
    [count |-> count + 1, listeners |-> listeners \cup {listener}]

\* line 120 runs before line 121 raises the KeyError that line 123 catches
remove_event_listener(count, listeners, listener) ==
    [count |-> count - 1, listeners |-> listeners \ {listener}]

get_event_listeners_count == event_listeners_count

AddEventListener(listener) ==
    /\ pc = "loop"
    /\ event_listeners_count < MaxCount
    /\ LET r == add_event_listener(event_listeners_count, event_listeners, listener)
       IN  /\ event_listeners_count' = r.count
           /\ event_listeners' = r.listeners
    /\ last' = Quiet("add_event_listener", listener)
    /\ UNCHANGED <<connVars, registryVars, store, timeVars, brokerVars, peerVars>>

RemoveEventListener(listener) ==
    /\ pc = "loop"
    /\ event_listeners_count > -MaxCount
    /\ LET r == remove_event_listener(event_listeners_count, event_listeners, listener)
       IN  /\ event_listeners_count' = r.count
           /\ event_listeners' = r.listeners
    /\ last' = Quiet("remove_event_listener", listener)
    /\ UNCHANGED <<connVars, registryVars, store, timeVars, brokerVars, peerVars>>

----------------------------------------------------------------------------
(* Message delivery: lines 87-111 *)

\* the broker delivers to a consumer of a bound queue on an open connection
Consuming(c) ==
    /\ conns[c] \notin {"none", "closed"}
    /\ {"queue_bind", "basic_consume"} \subseteq Range(issued[c])

\* lines 87-89: the handler proper, whatever message the body came in
handle_delivery(body) ==
    /\ pc = "loop"
    /\ LET res == notify_listeners(body, subscrib_channel, store)
       IN  /\ store' = res.store
           /\ last' = Ran("handle_delivery", "", body, res)
    /\ UNCHANGED <<connVars, listenerVars, registryVars, timeVars, peerVars>>

HandleDelivery(body) ==
    /\ \E c \in DOMAIN conns : Consuming(c)
    /\ handle_delivery(body)
    /\ UNCHANGED brokerVars

\* the transport layer, on a join, appends the member to the room's list
TransportJoin(room, element) ==
    /\ StoreSize(store) < MaxStore
    /\ store' = [store EXCEPT ![room] = Append(@, element)]
    /\ last' = Quiet("transport_join", "")
    /\ UNCHANGED <<connVars, listenerVars, registryVars, timeVars, brokerVars, peerVars>>

----------------------------------------------------------------------------
(* The connection lifecycle: lines 36-98 *)

ConnObjs == 1..MaxConn

Msgs == 1..MaxMsgs

\* the queue name the broker answers queue_declare with
QueueName == "sockjs"

\* line 58: time.sleep(5)
SleepSeconds == 5

Issue(log, c, methods) == [log EXCEPT ![c] = @ \o methods]

\* lines 53-55: the constructor returns a new connection object, on which
\* the close callback is registered
\* a connect() that returns without line 61
ConnectOpened_noStamp(op, t) ==
    /\ nconn < MaxConn
    /\ nconn' = nconn + 1
    /\ connection' = nconn + 1
    /\ conns' = [conns EXCEPT ![nconn + 1] = "opening"]
    /\ pc' = "loop"
    /\ last' = Quiet(op, "")
    /\ UNCHANGED <<fails, last_reconnect>>

ConnectOpened(op, t) ==
    /\ nconn < MaxConn
    /\ nconn' = nconn + 1
    /\ connection' = nconn + 1
    /\ conns' = [conns EXCEPT ![nconn + 1] = "opening"]
    /\ pc' = "loop"
    /\ last_reconnect' = t
    /\ last' = Quiet(op, "")
    /\ UNCHANGED fails

\* a connect() without the except clause: the error leaves the handler
ConnectFailed_uncaught(op, t) ==
    /\ fails < MaxFail
    /\ fails' = fails + 1
    /\ pc' = "loop"
    /\ last' = [Quiet(op, "") EXCEPT !.raised = "AMQPConnectionError"]
    /\ UNCHANGED <<nconn, connection, conns, last_reconnect>>

\* lines 56-58: the constructor raises AMQPConnectionError, which is caught,
\* and the handler enters time.sleep(5) holding the loop; line 61 is not
\* reached before the retry returns
ConnectFailed(op, t) ==
    /\ fails < MaxFail
    /\ fails' = fails + 1
    /\ pc' = "sleep"
    /\ last' = Quiet(op, "")
    /\ UNCHANGED <<nconn, connection, conns, last_reconnect>>

\* lines 41-61 of connect(), past the guard, run at time t
ConnectAttempt(op, t) ==
    /\ connecting' = TRUE
    /\ attempts' = attempts + 1
    /\ attempt_start' = t
    /\ ConnectOpened(op, t) \/ ConnectFailed(op, t)
    /\ UNCHANGED <<connected, channel, queue, issued, uptime_start, uptime_returned,
                   brokerVars, peerVars>>

\* a connect() without the guard of lines 37-39
Connect_unguarded ==
    /\ pc = "loop"
    /\ ConnectAttempt("connect", clock)
    /\ UNCHANGED <<clock, timers, listenerVars, registryVars, store>>

\* connect() called from outside: lines 37-39 return when the flag is set
Connect ==
    /\ pc = "loop"
    /\ IF connecting
       THEN /\ last' = Quiet("connect", "")
            /\ UNCHANGED <<connVars, timeVars, brokerVars, peerVars>>
       ELSE /\ ConnectAttempt("connect", clock)
            /\ UNCHANGED <<clock, timers>>
    /\ UNCHANGED <<listenerVars, registryVars, store>>

\* lines 58-59: time.sleep(5) returns and connect() calls self.reconnect(),
\* which clears the flag (line 96) and calls connect() again (line 98)
SleepDone ==
    /\ pc = "sleep"
    /\ clock' = clock + SleepSeconds
    /\ ConnectAttempt("reconnect", clock + SleepSeconds)
    /\ UNCHANGED <<timers, listenerVars, registryVars, store>>

\* a timer that stays armed after it fired
Reconnect_periodic ==
    /\ pc = "loop"
    /\ timers > 0
    /\ ConnectAttempt("reconnect", clock)
    /\ UNCHANGED <<timers, clock, listenerVars, registryVars, store>>

\* the timer of line 93 fires: reconnect(), lines 95-98
Reconnect ==
    /\ pc = "loop"
    /\ timers > 0
    /\ timers' = timers - 1
    /\ ConnectAttempt("reconnect", clock)
    /\ UNCHANGED <<clock, listenerVars, registryVars, store>>

\* lines 63-67
OnConnected(c) ==
    /\ pc = "loop"
    /\ conns[c] = "opening"
    /\ conns' = [conns EXCEPT ![c] = "open"]
    /\ connected' = TRUE
    /\ connection' = c
    /\ issued' = Issue(issued, c, <<"channel_open">>)
    /\ last' = Quiet("on_connected", "")
    /\ UNCHANGED <<connecting, channel, queue, nconn, attempts, fails, timers, pc,
                   listenerVars, registryVars, store, timeVars, brokerVars, peerVars>>

\* lines 69-79: the library answers the channel request of an open connection
OnChannelOpen(c) ==
    /\ pc = "loop"
    /\ conns[c] = "open"
    /\ "channel_open" \in Range(issued[c])
    /\ conns' = [conns EXCEPT ![c] = "channel_open"]
    /\ channel' = c
    /\ issued' = Issue(issued, c, <<"exchange_declare", "queue_declare">>)
    /\ last' = Quiet("on_channel_open", "")
    /\ UNCHANGED <<connected, connecting, connection, queue, nconn, attempts, fails,
                   timers, pc, listenerVars, registryVars, store, timeVars, brokerVars,
                   peerVars>>

\* an on_queue_declared that starts consuming before it binds
OnQueueDeclared_consumeFirst(c) ==
    /\ pc = "loop"
    /\ conns[c] = "channel_open"
    /\ "queue_declare" \in Range(issued[c])
    /\ channel # 0
    /\ conns' = [conns EXCEPT ![c] = "declared"]
    /\ queue' = QueueName
    /\ issued' = Issue(issued, channel, <<"basic_consume", "queue_bind">>)
    /\ last' = Quiet("on_queue_declared", "")
    /\ UNCHANGED <<connected, connecting, connection, channel, nconn, attempts, fails,
                   timers, pc, listenerVars, registryVars, store, timeVars, brokerVars,
                   peerVars>>

\* lines 81-85: the library answers the queue_declare of an open channel;
\* bind and consume go out on self.channel
OnQueueDeclared(c) ==
    /\ pc = "loop"
    /\ conns[c] = "channel_open"
    /\ "queue_declare" \in Range(issued[c])
    /\ channel # 0
    /\ conns' = [conns EXCEPT ![c] = "declared"]
    /\ queue' = QueueName
    /\ issued' = Issue(issued, channel, <<"queue_bind", "basic_consume">>)
    /\ last' = Quiet("on_queue_declared", "")
    /\ UNCHANGED <<connected, connecting, connection, channel, nconn, attempts, fails,
                   timers, pc, listenerVars, registryVars, store, timeVars, brokerVars,
                   peerVars>>

\* a consumer started without no_ack, in a client that never sends an ack
NoAck_manual == FALSE

\* line 85: the consumer is started with no_ack=True
NoAck == TRUE

\* what the broker does when connection c goes: what was on the wire to it
\* is lost, what it awaited an ack for goes back to the queue, and the
\* auto_delete queue (line 77) is either deleted with what it holds, the
\* consumer having been its last, or kept by the consumers of other instances
BrokerOnClose(c) ==
    /\ inflight' = [inflight EXCEPT ![c] = {}]
    /\ unacked' = [unacked EXCEPT ![c] = {}]
    /\ bqueue' \in {{}, bqueue \cup unacked[c]}
    /\ UNCHANGED <<published, handled, bcasts>>

\* an on_closed that only logs
OnClosed_logOnly(c) ==
    /\ pc = "loop"
    /\ conns[c] \in {"opening", "open", "channel_open", "declared"}
    /\ nconn < MaxConn
    /\ conns' = [conns EXCEPT ![c] = "closed"]
    /\ last' = Quiet("on_closed", "")
    /\ BrokerOnClose(c)
    /\ UNCHANGED <<connected, connecting, connection, channel, queue, issued, nconn,
                   attempts, fails, timers, pc, listenerVars, registryVars, store,
                   timeVars, peerVars>>

\* an on_closed that also clears the connected flag
OnClosed_disconnects(c) ==
    /\ pc = "loop"
    /\ conns[c] \in {"opening", "open", "channel_open", "declared"}
    /\ nconn < MaxConn
    /\ conns' = [conns EXCEPT ![c] = "closed"]
    /\ connected' = FALSE
    /\ timers' = timers + 1
    /\ last' = Quiet("on_closed", "")
    /\ BrokerOnClose(c)
    /\ UNCHANGED <<connecting, connection, channel, queue, issued, nconn,
                   attempts, fails, pc, listenerVars, registryVars, store,
                   timeVars, peerVars>>

\* lines 91-93: the connection closes, at whatever stage it is.  A close is
\* taken only while the model can still construct the connection after it.
OnClosed(c) ==
    /\ pc = "loop"
    /\ conns[c] \in {"opening", "open", "channel_open", "declared"}
    /\ nconn < MaxConn
    /\ conns' = [conns EXCEPT ![c] = "closed"]
    /\ timers' = timers + 1
    /\ last' = Quiet("on_closed", "")
    /\ BrokerOnClose(c)
    /\ UNCHANGED <<connected, connecting, connection, channel, queue, issued, nconn,
                   attempts, fails, pc, listenerVars, registryVars, store,
                   timeVars, peerVars>>

----------------------------------------------------------------------------
(* The broker's queue and the consumer of line 85 *)

\* the body of message m: a complete event for c1, or a text json.loads
\* refuses
BodyOf(m) ==
    IF m % 2 = 1
    THEN json_dumps([uid |-> "c1", room |-> "r1", host |-> "h1", data |-> "d1"])
    ELSE Garbage

\* a publisher sends the next message to the exchange.  It is kept for the
\* queue of line 76 even when that queue does not exist yet: the broker
\* would drop it, which only removes deliveries.
Publish(m) ==
    /\ m = Cardinality(published) + 1
    /\ published' = published \cup {m}
    /\ bqueue' = bqueue \cup {m}
    /\ last' = Quiet("basic_publish", "")
    /\ UNCHANGED <<connVars, listenerVars, registryVars, store, timeVars, inflight,
                   unacked, handled, bcasts, peerVars>>

\* the broker sends message m to the consumer on connection c; under no_ack
\* it takes the message for acknowledged as it does so
BrokerDeliver(m, c) ==
    /\ m \in bqueue
    /\ Consuming(c)
    /\ bqueue' = bqueue \ {m}
    /\ inflight' = [inflight EXCEPT ![c] = @ \cup {m}]
    /\ unacked' = IF NoAck THEN unacked ELSE [unacked EXCEPT ![c] = @ \cup {m}]
    /\ last' = Quiet("basic_deliver", "")
    /\ UNCHANGED <<connVars, listenerVars, registryVars, store, timeVars, published,
                   handled, bcasts, peerVars>>

\* lines 87-89, for message m received on connection c; no ack is sent
HandleMessage(m, c) ==
    /\ m \in inflight[c]
    /\ Consuming(c)
    /\ handle_delivery(BodyOf(m))
    /\ inflight' = [inflight EXCEPT ![c] = @ \ {m}]
    /\ handled' = [handled EXCEPT ![m] = @ + 1]
    /\ bcasts' = [bcasts EXCEPT ![m] = @ + Len(last'.broadcasts)]
    /\ UNCHANGED <<published, bqueue, unacked>>

----------------------------------------------------------------------------
(* Two bridge instances on one membership store.  This client is the      *)
(* instance of host h1; peer_channel is the registry of the instance of h2. *)

ThisHost == "h1"

RegistryOf(h) == IF h = ThisHost THEN subscrib_channel ELSE peer_channel

\* the messages the instances are handed
ClusterBodies == {json_dumps(e) : e \in CompleteEvents}

\* the transport layer of host h, on a join of a connection no instance
\* holds: it writes the member {id, host} into the room's list and registers
\* the connection with the bridge instance of h (lines 126-128), in one step
TransportRegister(h, conn_id, room, client) ==
    /\ pc = "loop"
    /\ \A g \in Hosts : conn_id \notin DOMAIN RegistryOf(g)
    /\ StoreSize(store) < MaxStore
    /\ store' = [store EXCEPT
                    ![room] = Append(@, json_dumps([id |-> conn_id, host |-> h]))]
    /\ IF h = ThisHost
       THEN /\ subscrib_channel' =
                  add_subscriber_channel(subscrib_channel, conn_id, room, client)
            /\ added' = added \cup {conn_id}
            /\ UNCHANGED peer_channel
       ELSE /\ peer_channel' = add_subscriber_channel(peer_channel, conn_id, room, client)
            /\ UNCHANGED <<subscrib_channel, added>>
    /\ last' = Called("transport_register", conn_id, room, client, RegistryOf(h))
    /\ UNCHANGED <<connVars, listenerVars, timeVars, brokerVars>>

\* lines 87-111 run by the other instance, with its own registry, on the
\* store the two share
PeerDelivery(body) ==
    /\ LET res == notify_listeners(body, peer_channel, store)
       IN  /\ store' = res.store
           /\ last' = Ran("peer_handle_delivery", "", body, res)
    /\ UNCHANGED <<connVars, listenerVars, registryVars, timeVars, brokerVars, peerVars>>

----------------------------------------------------------------------------
(* The clock and the two time readings *)

\* timedelta.seconds: the seconds of a non-negative timedelta that are left
\* over after its whole days
SecondsPerDay == 24 * 60 * 60

\* the step by which the clock is advanced between two handlers
TickSeconds == 8 * 60 * 60

\* line 152, called at time t
get_uptime(t, start) == (t - start) % SecondsPerDay

\* line 149
get_last_reconnect == last_reconnect

\* time passes while the loop is idle
Tick ==
    /\ pc = "loop"
    /\ clock < MaxTicks * TickSeconds
    /\ clock' = clock + TickSeconds
    /\ last' = Quiet("tick", "")
    /\ UNCHANGED <<connVars, listenerVars, registryVars, store, last_reconnect,
                   uptime_start, attempt_start, uptime_returned, brokerVars, peerVars>>

\* lines 151-152
GetUptime ==
    /\ pc = "loop"
    /\ uptime_returned' = get_uptime(clock, uptime_start)
    /\ last' = Quiet("get_uptime", "")
    /\ UNCHANGED <<connVars, listenerVars, registryVars, store, clock, last_reconnect,
                   uptime_start, attempt_start, brokerVars, peerVars>>

----------------------------------------------------------------------------
(* Initial states and specifications *)

\* __init__, lines 15-34, with an empty membership store
Init ==
    /\ connected = FALSE
    /\ connecting = FALSE
    /\ connection = 0
    /\ channel = 0
    /\ queue = ""
    /\ event_listeners_count = 0
    /\ event_listeners = {}
    /\ subscrib_channel = EmptyDict
    /\ store = [r \in Rooms |-> <<>>]
    /\ conns = [c \in ConnObjs |-> "none"]
    /\ issued = [c \in ConnObjs |-> <<>>]
    /\ nconn = 0
    /\ attempts = 0
    /\ fails = 0
    /\ timers = 0
    /\ pc = "loop"
    /\ added = {}
    /\ last = Quiet("__init__", "")
    /\ clock = 0
    /\ last_reconnect = 0
    /\ uptime_start = 0
    /\ attempt_start = 0
    /\ uptime_returned = 0
    /\ published = {}
    /\ bqueue = {}
    /\ inflight = [c \in ConnObjs |-> {}]
    /\ unacked = [c \in ConnObjs |-> {}]
    /\ handled = [m \in Msgs |-> 0]
    /\ bcasts = [m \in Msgs |-> 0]
    /\ peer_channel = EmptyDict

\* the state after connect() and the three callbacks of the first connection
InitConsuming ==
    /\ connected = TRUE
    /\ connecting = TRUE
    /\ connection = 1
    /\ channel = 1
    /\ queue = QueueName
    /\ event_listeners_count = 0
    /\ event_listeners = {}
    /\ subscrib_channel = EmptyDict
    /\ store = [r \in Rooms |-> <<>>]
    /\ conns = [c \in ConnObjs |-> IF c = 1 THEN "declared" ELSE "none"]
    /\ issued = [c \in ConnObjs |->
                    IF c = 1 THEN <<"channel_open", "exchange_declare", "queue_declare",
                                    "queue_bind", "basic_consume">>
                    ELSE <<>>]
    /\ nconn = 1
    /\ attempts = 1
    /\ fails = 0
    /\ timers = 0
    /\ pc = "loop"
    /\ added = {}
    /\ last = Quiet("on_queue_declared", "")
    /\ clock = 0
    /\ last_reconnect = 0
    /\ uptime_start = 0
    /\ attempt_start = 0
    /\ uptime_returned = 0
    /\ published = {}
    /\ bqueue = {}
    /\ inflight = [c \in ConnObjs |-> {}]
    /\ unacked = [c \in ConnObjs |-> {}]
    /\ handled = [m \in Msgs |-> 0]
    /\ bcasts = [m \in Msgs |-> 0]
    /\ peer_channel = EmptyDict

NextConn ==
    \/ Connect
    \/ SleepDone
    \/ Reconnect
    \/ \E c \in ConnObjs : OnConnected(c)
    \/ \E c \in ConnObjs : OnChannelOpen(c)
    \/ \E c \in ConnObjs : OnQueueDeclared(c)
    \/ \E c \in ConnObjs : OnClosed(c)

NextDispatch ==
    \/ \E body \in Bodies : HandleDelivery(body)
    \/ \E conn_id \in ConnIds, room \in Rooms, client \in Handles :
          AddSubscriberChannel(conn_id, room, client)
    \/ \E conn_id \in ConnIds, client \in Handles :
          RemoveSubscriberChannel(conn_id, client)
    \/ \E room \in Rooms, element \in Elements : TransportJoin(room, element)

NextListeners ==
    \/ \E listener \in Listeners : AddEventListener(listener)
    \/ \E listener \in Listeners : RemoveEventListener(listener)

\* the connection manager under a clock, with one call of each of the other
\* handlers
NextClock ==
    \/ NextConn
    \/ Tick
    \/ GetUptime
    \/ HandleDelivery(Garbage)
    \/ RemoveSubscriberChannel("c1", "H1")

\* the connection manager, the broker's queue and the subscriber c1
NextBroker ==
    \/ NextConn
    \/ \E m \in Msgs : Publish(m)
    \/ \E m \in Msgs, c \in ConnObjs : BrokerDeliver(m, c)
    \/ \E m \in Msgs, c \in ConnObjs : HandleMessage(m, c)
    \/ AddSubscriberChannel("c1", "r1", "H1")

\* the transport layers and the dispatchers of the two instances
NextCluster ==
    \/ \E h \in Hosts, conn_id \in ConnIds, room \in Rooms, client \in Handles :
          TransportRegister(h, conn_id, room, client)
    \/ \E body \in ClusterBodies : HandleDelivery(body)
    \/ \E body \in ClusterBodies : PeerDelivery(body)

Next ==
    \/ NextConn \/ NextDispatch \/ NextListeners \/ Tick \/ GetUptime
    \/ NextCluster
    \/ \E m \in Msgs : Publish(m)
    \/ \E m \in Msgs, c \in ConnObjs : BrokerDeliver(m, c)
    \/ \E m \in Msgs, c \in ConnObjs : HandleMessage(m, c)

\* the whole program
Spec == Init /\ [][Next]_vars

\* the connection manager alone
SpecConn == Init /\ [][NextConn]_vars

\* the registry and the dispatcher, on a consuming connection
SpecDispatch == InitConsuming /\ [][NextDispatch]_vars

\* the listener set alone
SpecListeners == Init /\ [][NextListeners]_vars

\* the connection manager under a clock, with the uptime read at any time
SpecClock == Init /\ [][NextClock]_vars

\* the connection manager with the broker's queue and the messages in it
SpecBroker == Init /\ [][NextBroker]_vars

\* two instances, both consuming, on one membership store
SpecCluster == InitConsuming /\ [][NextCluster]_vars

\* the connection manager with its timers firing, its sleeps returning and
\* the broker answering what is asked of it
FairSpecConn ==
    /\ SpecConn
    /\ WF_vars(Reconnect)
    /\ WF_vars(SleepDone)
    /\ \A c \in ConnObjs : /\ WF_vars(OnConnected(c))
                           /\ WF_vars(OnChannelOpen(c))
                           /\ WF_vars(OnQueueDeclared(c))

----------------------------------------------------------------------------
(* The dispatcher's claims *)

Delivered == last.op = "handle_delivery"

\* the event of the last delivery, when its body was a complete event
CompleteDelivery ==
    /\ Delivered
    /\ last.body.valid
    /\ DOMAIN json_loads(last.body) = EventKeys

LastEvent == json_loads(last.body)

\* HandleDelivery leaves the registry as it is, so in a state it has just
\* left the registry is the one the lookup saw
HitDelivery == CompleteDelivery /\ LastEvent["uid"] \in DOMAIN subscrib_channel

MissDelivery == CompleteDelivery /\ LastEvent["uid"] \notin DOMAIN subscrib_channel

\* C1: a complete event whose uid the registry holds with handle H makes
\* exactly one broadcast, on H, to the recipients [H], with the payload the
\* JSON object whose only key is "data" with the event's data, and no lrem.
C1_DispatchHit ==
    HitDelivery =>
        LET H == subscrib_channel[LastEvent["uid"]].conn
        IN  /\ Len(last.broadcasts) = 1
            /\ last.broadcasts[1].on = H
            /\ last.broadcasts[1].recipients = <<H>>
            /\ last.broadcasts[1].payload.valid
            /\ json_loads(last.broadcasts[1].payload) = [data |-> LastEvent["data"]]
            /\ last.lrems = <<>>
            /\ last.raised = "none"

C1_Witness ==
    /\ HitDelivery
    /\ subscrib_channel[LastEvent["uid"]].room # LastEvent["room"]
    /\ last.broadcasts # <<>>

\* C2: a complete event whose uid the registry does not hold makes exactly
\* one lrem, on the list at key room with the element {id: uid, host: host},
\* and no broadcast; when the list holds no such element the store is left
\* as it is, and nothing is raised.
C2_MissState ==
    MissDelivery =>
        /\ Len(last.lrems) = 1
        /\ last.lrems[1].key = LastEvent["room"]
        /\ last.lrems[1].value.valid
        /\ json_loads(last.lrems[1].value) =
              [id |-> LastEvent["uid"], host |-> LastEvent["host"]]
        /\ last.broadcasts = <<>>
        /\ last.raised = "none"

C2_MissStep ==
    (/\ MissDelivery'
     /\ \A i \in DOMAIN store[LastEvent["room"]'] :
            json_loads(store[LastEvent["room"]'][i]) #
                [id |-> LastEvent["uid"]', host |-> LastEvent["host"]'])
    => store' = store

C2_DispatchMiss == [] C2_MissState /\ [][C2_MissStep]_vars

C2_Witness ==
    /\ MissDelivery
    /\ Len(last.lrems) = 1
    /\ StoreSize(store) > 0

\* C3: the registry's ids are the ids added and not removed since, the
\* count is their number, no dispatch finds an id that is not among them,
\* and removing an absent id raises nothing and changes nothing.
C3_RegistryState ==
    /\ get_subscribe_channels = added
    /\ get_subscribe_channel_count = Cardinality(added)
    /\ \A e \in CompleteEvents : e.uid \notin added => ~LookupHit(e, subscrib_channel)

C3_RemoveAbsentStep ==
    (/\ last'.op = "remove_subscriber_channel"
     /\ last'.arg \notin DOMAIN subscrib_channel)
    => /\ subscrib_channel' = subscrib_channel
       /\ last'.raised = "none"

C3_Registry == [] C3_RegistryState /\ [][C3_RemoveAbsentStep]_vars

C3_Witness ==
    /\ last.op = "remove_subscriber_channel"
    /\ last.arg \notin added
    /\ Cardinality(added) = 1
    /\ get_subscribe_channel_count = 1

\* C8: a body that is not JSON, or an object that lacks one of uid, room,
\* host, data, is dropped: nothing is raised and no broadcast is made.
Unroutable(body) == ~body.valid \/ DOMAIN json_loads(body) # EventKeys

C8_MalformedDropped ==
    (Delivered /\ Unroutable(last.body)) =>
        /\ last.raised = "none"
        /\ last.broadcasts = <<>>

----------------------------------------------------------------------------
(* The listener set's claim *)

\* C7: the listener count is the size of the listener set.
C7_CountIsSetSize == get_event_listeners_count = Cardinality(event_listeners)

----------------------------------------------------------------------------
(* The connection manager's claims *)

LiveStages == {"opening", "open", "channel_open", "declared"}

\* the manager is Connecting or later: an attempt is in flight or a
\* connection is open
LiveConnection == \E c \in ConnObjs : conns[c] \in LiveStages

\* C4: a connect() call made while an attempt is in flight or a connection
\* is open makes no constructor call and changes no manager state.
C4_ConnectIdempotent ==
    [][(LiveConnection /\ last'.op = "connect") => UNCHANGED connVars]_vars

C4_Witness ==
    /\ last.op = "connect"
    /\ nconn = 1
    /\ attempts = 1
    /\ Consuming(1)

Topology == <<"channel_open", "exchange_declare", "queue_declare",
              "queue_bind", "basic_consume">>

IsPrefix(s, t) == Len(s) <= Len(t) /\ \A i \in 1..Len(s) : s[i] = t[i]

\* what a connection at a stage has had issued on it
StageLog(stage) ==
    IF stage = "open" THEN SubSeq(Topology, 1, 1)
    ELSE IF stage = "channel_open" THEN SubSeq(Topology, 1, 3)
    ELSE IF stage = "declared" THEN Topology
    ELSE <<>>

\* C5: on every connection, the first and each later one, the methods go
\* out in the order channel open (after the connection opened), exchange
\* declare, queue declare, queue bind, consume, all on that connection.
C5_TopologyOrder ==
    \A c \in ConnObjs :
        /\ IsPrefix(issued[c], Topology)
        /\ conns[c] # "closed" => issued[c] = StageLog(conns[c])

C5_Witness ==
    /\ conns[1] = "closed"
    /\ issued[1] = Topology
    /\ conns[2] = "declared"
    /\ issued[2] = Topology

\* C6: every close, at whatever stage, adds a reconnect timer; with the
\* timers firing a new constructor call follows, and with the broker
\* answering a later connection reaches consuming.
C6_CloseStep ==
    \A c \in ConnObjs :
        (conns[c] # "closed" /\ conns'[c] = "closed") => timers' = timers + 1

C6_CloseReconnects ==
    /\ [][C6_CloseStep]_vars
    /\ \A c \in ConnObjs, n \in 0..(MaxConn + MaxFail) :
          (conns[c] = "closed" /\ nconn = c /\ attempts = n) ~> (attempts > n)
    /\ \A c \in ConnObjs :
          (conns[c] = "closed" /\ nconn = c) ~> (\E d \in ConnObjs : d > c /\ Consuming(d))

C6_Witness ==
    /\ conns[1] = "closed"
    /\ issued[1] = <<>>
    /\ Consuming(2)

\* C9: a constructor call that raises leaves nothing raised out of
\* connect(): the handler waits, then calls connect again with the manager
\* Connecting, and does so after every failure until a call succeeds.
C9_FailStep ==
    fails' > fails => (pc' = "sleep" /\ connecting' /\ last'.raised = "none")

C9_RetryStep ==
    pc = "sleep" => (attempts' = attempts + 1 /\ connecting')

C10_RetryDelayFreesLoop ==
    pc = "sleep" =>
        /\ ENABLED (\E conn_id \in ConnIds, room \in Rooms, client \in Handles :
                       AddSubscriberChannel(conn_id, room, client))
        /\ ENABLED (\E conn_id \in ConnIds, client \in Handles :
                       RemoveSubscriberChannel(conn_id, client))
        /\ ENABLED (\E listener \in Listeners : AddEventListener(listener))
        /\ ENABLED (\E listener \in Listeners : RemoveEventListener(listener))

\* C11: at every state at most one connection is opening or open, at most
\* one reconnect is awaited, and none is awaited (as a timer or as the wait
\* of the failure path) while a connection is opening or open; no step
\* constructs a connection while another one is opening or open.
C11_AtMostOneConnection ==
    /\ [](/\ Cardinality({c \in ConnObjs : conns[c] \in LiveStages}) <= 1
          /\ timers <= 1
          /\ (timers > 0 \/ pc = "sleep") => ~LiveConnection)
    /\ [][nconn' > nconn => ~LiveConnection]_vars

C11_Witness ==
    /\ conns[1] = "closed"
    /\ conns[2] \in LiveStages
    /\ fails > 0
    /\ last.op = "reconnect"

\* C12: of any two get_uptime() calls the later returns at least what the
\* earlier returned.
C12_UptimeMonotone ==
    [][uptime_returned' >= uptime_returned]_vars

C16_State ==
    /\ \A c \in ConnObjs : unacked[c] = {}
    /\ \A m \in Msgs :
          /\ handled[m] <= 1
          /\ bcasts[m] <= handled[m]
          /\ handled[m] = 1 => (m \notin bqueue /\ \A c \in ConnObjs : m \notin inflight[c])

C16_Step ==
    \A m \in Msgs : (m \in published /\ m \notin bqueue) => m \notin bqueue'

C16_AtMostOnce == [] C16_State /\ [][C16_Step]_vars

C16_Witness ==
    /\ conns[1] = "closed"
    /\ Consuming(2)
    /\ published = {1, 2}
    /\ handled[2] = 1
    /\ handled[1] = 0
    /\ bqueue = {}
    /\ \A c \in ConnObjs : inflight[c] = {}
    /\ last.op = "on_queue_declared"

\* C17: no step takes the record {id, host} out of a room's list while the
\* instance of that host has the id in its registry.
C17_NoLiveRecordRemoved ==
    [][\A c \in ConnIds, h \in Hosts, r \in Rooms :
          LET record == json_dumps([id |-> c, host |-> h])
          IN  (record \in Range(store[r]) /\ record \notin Range(store'[r]))
                 => c \notin DOMAIN RegistryOf(h)]_vars

\* what a delivery of event e would do in the present state
DispatchOf(e) == notify_listeners(json_dumps(e), subscrib_channel, store)

\* C14: after add_subscriber_channel(c, r, H) the entry of c is {r, H}
\* whatever c held before, a message for c is broadcast on H alone, the
\* count is unchanged when c had an entry, and the entry of every other id
\* is as it was.
C14_AddState ==
    last.op = "add_subscriber_channel" =>
        /\ last.arg \in get_subscribe_channels
        /\ subscrib_channel[last.arg] = [room |-> last.room, conn |-> last.client]
        /\ \A e \in CompleteEvents :
              e.uid = last.arg =>
                  /\ Len(DispatchOf(e).broadcasts) = 1
                  /\ DispatchOf(e).broadcasts[1].on = last.client
                  /\ DispatchOf(e).broadcasts[1].recipients = <<last.client>>

C14_AddStep ==
    last'.op = "add_subscriber_channel" =>
        /\ get_subscribe_channels' = get_subscribe_channels \cup {last'.arg}
        /\ last'.arg \in get_subscribe_channels =>
               get_subscribe_channel_count' = get_subscribe_channel_count
        /\ \A d \in get_subscribe_channels \ {last'.arg} :
               subscrib_channel'[d] = subscrib_channel[d]

C14_LastAddWins == [] C14_AddState /\ [][C14_AddStep]_vars

C14_Witness ==
    /\ last.op = "add_subscriber_channel"
    /\ last.had = "H1"
    /\ last.client = "H2"
    /\ last.room = "r2"
    /\ get_subscribe_channel_count = 2

\* C15: a step of the bridge either leaves the store as it is or is a
\* dispatch miss that takes, from the list at the key equal to the
\* message's room, the elements equal to the message's {id, host} element,
\* and leaves every other key and every other element as it was.
C15_StoreStep ==
    last'.op # "transport_join" =>
        \/ store' = store
        \/ /\ Delivered'
           /\ last'.body.valid
           /\ {"room", "uid", "host"} \subseteq DOMAIN LastEvent'
           /\ LastEvent["uid"]' \notin get_subscribe_channels
           /\ json_loads(last'.lrems[1].value) =
                 [id |-> LastEvent["uid"]', host |-> LastEvent["host"]']
           /\ DOMAIN store' = DOMAIN store
           /\ \A k \in DOMAIN store :
                 IF k = LastEvent["room"]'
                 THEN LET gone(x) == x # last'.lrems[1].value
                      IN  store'[k] = SelectSeq(store[k], gone)
                 ELSE store'[k] = store[k]

C15_OnlyMissRemoves == [][C15_StoreStep]_vars

C15_Witness ==
    /\ MissDelivery
    /\ \E k \in DOMAIN store :
          /\ k # LastEvent["room"]
          /\ \E i \in DOMAIN store[k] : store[k][i] = last.lrems[1].value

\* C18: after remove_subscriber_channel(c, client) the registry has no
\* entry for c, whatever handle the entry held, and a message for c makes
\* no broadcast and one lrem of its {id, host} element.
C18_RemoveState ==
    last.op = "remove_subscriber_channel" =>
        /\ last.arg \notin get_subscribe_channels
        /\ \A e \in CompleteEvents :
              e.uid = last.arg =>
                  /\ DispatchOf(e).broadcasts = <<>>
                  /\ Len(DispatchOf(e).lrems) = 1
                  /\ DispatchOf(e).lrems[1].key = e.room
                  /\ json_loads(DispatchOf(e).lrems[1].value) =
                        [id |-> e.uid, host |-> e.host]

C18_Witness ==
    /\ last.op = "remove_subscriber_channel"
    /\ last.had = "H2"
    /\ last.client = "H1"

\* C19: a complete event whose uid has an entry is broadcast on the handle
\* of that entry whatever rooms the event and the entry name, and a
\* delivery changes neither the registry nor the listener set or its count.
C19_HitState ==
    \A e \in CompleteEvents :
        e.uid \in get_subscribe_channels =>
            /\ Len(DispatchOf(e).broadcasts) = 1
            /\ DispatchOf(e).broadcasts[1].on = subscrib_channel[e.uid].conn
            /\ DispatchOf(e).lrems = <<>>

C19_DeliveryStep ==
    Delivered' => UNCHANGED <<subscrib_channel, event_listeners, event_listeners_count>>

C19_RoutedByUid == [] C19_HitState /\ [][C19_DeliveryStep]_vars

C19_Witness ==
    /\ HitDelivery
    /\ subscrib_channel[LastEvent["uid"]] = [room |-> "r2", conn |-> "H2"]
    /\ LastEvent["room"] = "r1"
    /\ last.broadcasts[1].on = "H2"
    /\ get_subscribe_channel_count = 2

\* C20: connected is set by on_connected and by nothing else, and no step
\* clears it: it is true exactly when some connection has been through
\* on_connected, whether or not a connection is open now.
C20_ConnectedMonotone ==
    /\ [](connected <=> \E c \in ConnObjs : issued[c] # <<>>)
    /\ [][connected => connected']_vars
    /\ [][(~connected /\ connected') => last'.op = "on_connected"]_vars

C20_Witness ==
    /\ connected
    /\ ~LiveConnection
    /\ fails > 0
    /\ pc = "sleep"

====
